---------------------------- MODULE Spec2Model ----------------------------
(***************************************************************************)
(* A model of scripts/check_availability.py: the availability checker that *)
(* reads its configuration from the environment, fetches one response per  *)
(* location, filters and merges the time slots of every day, assembles the *)
(* summary, writes .availability/summary.txt and .availability/found and   *)
(* optionally posts the summary to a webhook.                              *)
(*                                                                         *)
(* Conventions                                                             *)
(*   - a Python str is a sequence of one-character strings;                *)
(*   - Optional[T] is a sequence: None is << >>, a value v is <<v>>;       *)
(*   - a datetime (always UTC in the script) is its epoch second;          *)
(*   - a dict is a function, a missing key is a key outside its DOMAIN.    *)
(*                                                                         *)
(* Inputs                                                                  *)
(*   - the environment variables the filters, the loop and the webhook     *)
(*     guard read; NOW_EPOCH is unset or an integer, so "now" is the clock;*)
(*   - a response body is a JSON object whose fields, when present, have   *)
(*     the JSON types of the API (a date is text, readable or not; a       *)
(*     Duration is a number or text); a field may be missing;              *)
(*   - the request's URL and headers and the webhook's body format do not  *)
(*     change what main() does next and are not part of the state.         *)
(***************************************************************************)
EXTENDS Integers, Sequences, FiniteSets, TLC

VARIABLES
    env,              \* os.environ: name -> Optional[str]
    clock,            \* datetime.now(timezone.utc), epoch seconds
    upstream,         \* what the API answers to the k-th request of the run
    pc,               \* position of main()
    location_ids, name_map, tf, tt, window_days, weekdays_allowed,
    week_offset, target_weekday, now_epoch,       \* locals of main()
    idx,              \* position of the for loop over location_ids
    resp,             \* Optional[dict] returned by fetch_location
    lines, latest_dt, \* the pair returned by build_summary
    all_lines, location_blocks, found_any,        \* locals of main()
    summary_file,     \* content of .availability/summary.txt
    found_file,       \* content of .availability/found
    written,          \* the paths opened for writing, in order
    fetches,          \* the GET requests issued, in order (location ids)
    posts,            \* the webhook POSTs attempted, in order
    returned,         \* Optional[int]: the value main() returned
    stdout,           \* Optional[text]: what main() wrote to sys.stdout
    mr_slots,         \* argument of a merge_ranges call
    mr_merged         \* Optional[list]: its result

vars == <<env, clock, upstream, pc, location_ids, name_map, tf, tt,
          window_days, weekdays_allowed, week_offset, target_weekday,
          now_epoch, idx, resp, lines, latest_dt, all_lines, location_blocks, found_any,
          summary_file, found_file, written, fetches, posts, returned, stdout,
          mr_slots, mr_merged>>

mainVars == <<env, clock, upstream, pc, location_ids, name_map, tf, tt,
              window_days, weekdays_allowed, week_offset, target_weekday,
              now_epoch, idx, resp, lines, latest_dt, all_lines, location_blocks, found_any,
              summary_file, found_file, written, fetches, posts, returned,
              stdout>>

mergeVars == <<mr_slots, mr_merged>>

-----------------------------------------------------------------------------
(* Optional values *)

None == << >>

Some(v) == <<v>>

-----------------------------------------------------------------------------
(* Python str operations, on sequences of characters *)

Digits == {"0", "1", "2", "3", "4", "5", "6", "7", "8", "9"}

DigitVal(c) ==
    CASE c = "0" -> 0 [] c = "1" -> 1 [] c = "2" -> 2 [] c = "3" -> 3
      [] c = "4" -> 4 [] c = "5" -> 5 [] c = "6" -> 6 [] c = "7" -> 7
      [] c = "8" -> 8 [] c = "9" -> 9

Whitespace == {" ", "\t", "\n"}

UpperAlpha == <<"A", "B", "C", "D", "E", "F", "G", "H", "I", "J", "K", "L", "M",
                "N", "O", "P", "Q", "R", "S", "T", "U", "V", "W", "X", "Y", "Z">>

LowerAlpha == <<"a", "b", "c", "d", "e", "f", "g", "h", "i", "j", "k", "l", "m",
                "n", "o", "p", "q", "r", "s", "t", "u", "v", "w", "x", "y", "z">>

LowerChar(c) ==
    IF \E i \in 1..26 : UpperAlpha[i] = c
    THEN LowerAlpha[CHOOSE i \in 1..26 : UpperAlpha[i] = c]
    ELSE c

\* str.lower()
Lower(s) == [i \in 1..Len(s) |-> LowerChar(s[i])]

RECURSIVE LStripChars(_, _)
LStripChars(s, cs) ==
    IF s # << >> /\ Head(s) \in cs THEN LStripChars(Tail(s), cs) ELSE s

RECURSIVE RStripChars(_, _)
RStripChars(s, cs) ==
    IF s # << >> /\ s[Len(s)] \in cs
    THEN RStripChars(SubSeq(s, 1, Len(s) - 1), cs)
    ELSE s

\* str.strip(chars)
StripChars(s, cs) == RStripChars(LStripChars(s, cs), cs)

\* str.strip()
Strip(s) == StripChars(s, Whitespace)

\* str.replace(old, new) for one-character old and new
Replace(s, old, new) == [i \in 1..Len(s) |-> IF s[i] = old THEN new ELSE s[i]]

\* str.split(sep): the pieces between the separators, empty pieces kept
RECURSIVE SplitAcc(_, _, _, _)
SplitAcc(s, seps, cur, acc) ==
    IF s = << >> THEN Append(acc, cur)
    ELSE IF Head(s) \in seps
         THEN SplitAcc(Tail(s), seps, << >>, Append(acc, cur))
         ELSE SplitAcc(Tail(s), seps, Append(cur, Head(s)), acc)

Split(s, sep) == SplitAcc(s, {sep}, << >>, << >>)

\* str.split(): split on runs of whitespace, no empty piece
SplitWhitespace(s) == SelectSeq(SplitAcc(s, Whitespace, << >>, << >>), LAMBDA p : p # << >>)

\* str.isdigit()
IsDigit(s) == s # << >> /\ \A i \in 1..Len(s) : s[i] \in Digits

\* "".join(ch for ch in piece if ch.isdigit())
OnlyDigits(s) == SelectSeq(s, LAMBDA c : c \in Digits)

RECURSIVE DigitsValue(_, _)
DigitsValue(s, acc) ==
    IF s = << >> THEN acc ELSE DigitsValue(Tail(s), 10 * acc + DigitVal(Head(s)))

\* int(str): surrounding whitespace, an optional sign, decimal digits;
\* None stands for the ValueError
ParseInt(s) ==
    LET t == Strip(s)
        signed == t # << >> /\ Head(t) \in {"+", "-"}
        body == IF signed THEN Tail(t) ELSE t
    IN  IF ~IsDigit(body) THEN None
        ELSE IF signed /\ Head(t) = "-" THEN Some(0 - DigitsValue(body, 0))
        ELSE Some(DigitsValue(body, 0))

-----------------------------------------------------------------------------
(* merge_ranges *)

\* sorted(slots, key=lambda x: x[0]): stable, ascending by start
RECURSIVE SortByStart(_)
SortByStart(s) ==
    IF s = << >> THEN << >>
    ELSE LET init == SortByStart(SubSeq(s, 1, Len(s) - 1))
             x == s[Len(s)]
             k == Cardinality({i \in 1..Len(init) : init[i][1] <= x[1]})
         IN  SubSeq(init, 1, k) \o <<x>> \o SubSeq(init, k + 1, Len(init))

RECURSIVE MergeLoop(_, _)
MergeLoop(rest, acc) ==
    IF rest = << >> THEN acc
    ELSE LET start == Head(rest)[1]
             end == Head(rest)[2]
             last == acc[Len(acc)]
         IN  IF start = last[2]
             THEN MergeLoop(Tail(rest), [acc EXCEPT ![Len(acc)] = <<last[1], end>>])
             ELSE MergeLoop(Tail(rest), Append(acc, <<start, end>>))

merge_ranges(s) ==
    IF s = << >> THEN << >>
    ELSE LET sorted == SortByStart(s)
         IN  MergeLoop(Tail(sorted), <<Head(sorted)>>)

-----------------------------------------------------------------------------
(* Configuration parsing *)

\* os.environ.get(name)
EnvGet(e, name) == IF name \in DOMAIN e THEN e[name] ELSE None

\* read_env(name, default): a missing or blank value gives the default
read_env(e, name, default) ==
    LET value == EnvGet(e, name)
    IN  IF value = None THEN default
        ELSE IF Strip(value[1]) = << >> THEN default
        ELSE value

\* read_env(name, "") or ""
ReadStr(e, name) ==
    LET v == read_env(e, name, Some(<< >>)) IN IF v = None THEN << >> ELSE v[1]

\* parse_location_ids
parse_location_ids(raw) ==
    LET pieces == SplitWhitespace(Replace(raw, ",", " "))
        stripped == [i \in 1..Len(pieces) |-> Strip(pieces[i])]
        kept == SelectSeq(stripped, LAMBDA p : p # << >>)
        digits == [i \in 1..Len(kept) |-> OnlyDigits(StripChars(kept[i], {"\"", "'"}))]
    IN  SelectSeq(digits, LAMBDA d : d # << >>)

\* to_minutes_24h(hhmm: Optional[str]) -> Optional[int]
to_minutes_24h(hhmm) ==
    IF hhmm = None \/ hhmm[1] = << >> THEN None
    ELSE LET parts == Split(hhmm[1], ":")
         IN  IF Len(parts) # 2 THEN None
             ELSE LET h == ParseInt(parts[1])
                      m == ParseInt(parts[2])
                  IN  IF h = None \/ m = None THEN None
                      ELSE IF ~(0 <= h[1] /\ h[1] <= 23 /\ 0 <= m[1] /\ m[1] <= 59)
                           THEN None
                           ELSE Some(h[1] * 60 + m[1])

\* the keys of the names / dow_map dicts, in the order of their values 1..7
WeekdayNames ==
    << <<"m", "o", "n", "d", "a", "y">>,
       <<"t", "u", "e", "s", "d", "a", "y">>,
       <<"w", "e", "d", "n", "e", "s", "d", "a", "y">>,
       <<"t", "h", "u", "r", "s", "d", "a", "y">>,
       <<"f", "r", "i", "d", "a", "y">>,
       <<"s", "a", "t", "u", "r", "d", "a", "y">>,
       <<"s", "u", "n", "d", "a", "y">> >>

\* names.get(n) / dow_map.get(n)
WeekdayLookup(n) ==
    IF \E i \in 1..7 : WeekdayNames[i] = n
    THEN Some(CHOOSE i \in 1..7 : WeekdayNames[i] = n)
    ELSE None

\* weekday_to_num(name_or_num: str) -> Optional[int]
weekday_to_num(name_or_num) ==
    LET n == Lower(Strip(name_or_num))
    IN  IF IsDigit(n)
        THEN LET x == DigitsValue(n, 0)
             IN  IF 1 <= x /\ x <= 7 THEN Some(x) ELSE None
        ELSE WeekdayLookup(n)

\* allowed_weekdays_set(raw: Optional[str]) -> Optional[set]
allowed_weekdays_set(raw) ==
    IF raw = None \/ raw[1] = << >> THEN None
    ELSE LET pieces == Split(raw[1], ",")
             items == SelectSeq([i \in 1..Len(pieces) |-> Strip(pieces[i])],
                                LAMBDA p : p # << >>)
             result == {weekday_to_num(items[i])[1] :
                           i \in {j \in 1..Len(items) : weekday_to_num(items[j]) # None}}
         IN  IF result = {} THEN None ELSE Some(result)

\* main, lines 276-279: int(read_env("DATE_WINDOW_DAYS") or 0) or None
ParseWindowDays(e) ==
    LET raw == read_env(e, "DATE_WINDOW_DAYS", None)
        n == IF raw = None THEN Some(0) ELSE ParseInt(raw[1])
    IN  IF n = None THEN None
        ELSE IF n[1] = 0 THEN None
        ELSE n

\* main, lines 281-284
ParseWeekOffset(e) ==
    LET raw == read_env(e, "WEEK_OFFSET", None)
    IN  IF raw = None THEN None ELSE ParseInt(raw[1])

\* main, line 285
ParseTargetWeekday(e) ==
    LET raw == read_env(e, "TARGET_WEEKDAY", None)
    IN  IF raw = None THEN None ELSE weekday_to_num(raw[1])

-----------------------------------------------------------------------------
(* Dates.  A datetime is its epoch second; 1970-01-01 was a Thursday. *)

SecondsPerDay == 86400

\* date_midnight_epoch(dt)
date_midnight_epoch(dt) == (dt \div SecondsPerDay) * SecondsPerDay

\* dt.strftime("%Y-%m-%d"): the calendar date, named by its day number
DateStr(dt) == dt \div SecondsPerDay

\* int(dt.strftime("%u")): the ISO weekday, 1 = Monday .. 7 = Sunday
IsoWeekday(dt) == (((dt \div SecondsPerDay) + 3) % 7) + 1

\* fmt_24(m): the text "HH:MM", as the pair of its two numbers
fmt_24(m) == <<m \div 60, m % 60>>

\* dict.get(key, default)
Get(d, key, default) == IF key \in DOMAIN d THEN d[key] ELSE default

\* parse_api_datetime(value): a field holds Some(epoch second) when its text
\* has the API format and None when it has not; a missing key is None too
\* (strptime raises on both)
parse_api_datetime(d, key) == Get(d, key, None)

-----------------------------------------------------------------------------
(* build_summary.  A response is a dict; "LocationAvailabilityDates" holds  *)
(* [list |-> TRUE, items |-> days] for a JSON array and [list |-> FALSE,    *)
(* items |-> << >>] for any other non-empty JSON value.  A day is a dict    *)
(* with "AvailabilityDate" (Optional epoch second), "DayOfWeek" (str) and   *)
(* "AvailableTimeSlots" (list of slots); a slot is a dict with              *)
(* "StartDateTime" (Optional epoch second) and "Duration" ([num |-> n] for  *)
(* a JSON number, [str |-> s] for a JSON string).  Any key may be missing.  *)

DefaultDuration == 15

MaxEntries == 5

\* lines 179-182: the date-window filter
InWindow(avail_midnight, now_midnight, wd) ==
    IF wd # None
    THEN LET dd == (avail_midnight - now_midnight) \div SecondsPerDay
         IN  ~(dd < 0 \/ dd > wd[1])
    ELSE TRUE

\* lines 185-187: dow_num
DowNum(day) == WeekdayLookup(Lower(Strip(Get(day, "DayOfWeek", << >>))))

\* the weekday filter left out
WeekdayFilterOff(day, wa) == TRUE

\* lines 188-190: the weekday filter
WeekdayAllowed(day, wa) ==
    LET dow_num == DowNum(day)
    IN  IF wa # None /\ dow_num # None
        THEN dow_num[1] \in wa[1]
        ELSE TRUE

\* target_midnight without the week offset
TargetMidnightNoOffset(now, tw, wo) ==
    LET now_wd == IsoWeekday(now)
        days == (tw - now_wd + 7) % 7
    IN  date_midnight_epoch(now + days * SecondsPerDay)

\* lines 195-198: target_midnight
TargetMidnight(now, tw, wo) ==
    LET now_wd == IsoWeekday(now)
        days == ((tw - now_wd + 7) % 7) + (wo * 7)
    IN  date_midnight_epoch(now + days * SecondsPerDay)

\* lines 193-200: the exact-date filter
TargetMatches(avail_midnight, now, tw, wo) ==
    IF tw # None /\ wo # None
    THEN avail_midnight = TargetMidnight(now, tw[1], wo[1])
    ELSE TRUE

\* line 207: int(s.get("Duration") or 15); None stands for the ValueError
DurationOf(s) ==
    IF "Duration" \notin DOMAIN s THEN Some(DefaultDuration)
    ELSE LET v == s["Duration"]
         IN  IF "num" \in DOMAIN v
             THEN IF v.num = 0 THEN Some(DefaultDuration) ELSE Some(v.num)
             ELSE IF v.str = << >> THEN Some(DefaultDuration) ELSE ParseInt(v.str)

\* lines 205-213: the range of one slot, None when it is skipped or filtered
SlotRange(s, f, t) ==
    LET start_dt == parse_api_datetime(s, "StartDateTime")
        dur == DurationOf(s)
    IN  IF start_dt = None \/ dur = None THEN None
        ELSE LET hour == (start_dt[1] % SecondsPerDay) \div 3600
                 minute == (start_dt[1] % 3600) \div 60
                 start_min == hour * 60 + minute
                 end_min == start_min + dur[1]
             IN  IF (f = None \/ start_min >= f[1]) /\ (t = None \/ start_min < t[1])
                 THEN Some(<<start_min, end_min>>)
                 ELSE None

\* lines 203-213: the ranges collected for one day, in slot order
RECURSIVE CollectRanges(_, _, _)
CollectRanges(ss, f, t) ==
    IF ss = << >> THEN << >>
    ELSE SlotRange(Head(ss), f, t) \o CollectRanges(Tail(ss), f, t)

\* lines 219-221: the rendered day line
DayLine(avail_date, ranges) ==
    [date_str |-> DateStr(avail_date),
     times_str |-> [i \in 1..Len(ranges) |-> <<fmt_24(ranges[i][1]), fmt_24(ranges[i][2])>>]]

\* lines 168-221: the loop body; None when the day is skipped
DayEntry(day, f, t, now, wd, wa, tw, wo) ==
    LET ss == Get(day, "AvailableTimeSlots", << >>)
        avail_date == parse_api_datetime(day, "AvailabilityDate")
    IN  IF ss = << >> THEN None
        ELSE IF avail_date = None THEN None
        ELSE LET avail_midnight == date_midnight_epoch(avail_date[1])
                 now_midnight == (now \div SecondsPerDay) * SecondsPerDay
             IN  IF ~InWindow(avail_midnight, now_midnight, wd) THEN None
                 ELSE IF ~WeekdayAllowed(day, wa) THEN None
                 ELSE IF ~TargetMatches(avail_midnight, now, tw, wo) THEN None
                 ELSE LET ranges == merge_ranges(CollectRanges(ss, f, t))
                      IN  IF ranges = << >> THEN None
                          ELSE Some([dt |-> avail_date[1],
                                     line |-> DayLine(avail_date[1], ranges)])

RECURSIVE CollectEntries(_, _, _, _, _, _, _, _)
CollectEntries(days, f, t, now, wd, wa, tw, wo) ==
    IF days = << >> THEN << >>
    ELSE DayEntry(Head(days), f, t, now, wd, wa, tw, wo)
         \o CollectEntries(Tail(days), f, t, now, wd, wa, tw, wo)

\* line 223: entries.sort(key=lambda x: x[0], reverse=True): stable, newest first
RECURSIVE SortEntries(_)
SortEntries(es) ==
    IF es = << >> THEN << >>
    ELSE LET init == SortEntries(SubSeq(es, 1, Len(es) - 1))
             x == es[Len(es)]
             k == Cardinality({i \in 1..Len(init) : init[i].dt >= x.dt})
         IN  SubSeq(init, 1, k) \o <<x>> \o SubSeq(init, k + 1, Len(init))

\* the cap off by one: entries[:6]
TopEntriesOffByOne(es) ==
    SubSeq(es, 1, IF Len(es) < MaxEntries + 1 THEN Len(es) ELSE MaxEntries + 1)

\* line 224: entries[:5]
TopEntries(es) == SubSeq(es, 1, IF Len(es) < MaxEntries THEN Len(es) ELSE MaxEntries)

\* build_summary(resp, tf, tt, now_epoch, window_days, weekdays_allowed,
\*               target_weekday, week_offset) -> (lines, latest_dt)
build_summary(r, f, t, now, wd, wa, tw, wo) ==
    LET dates == Get(r, "LocationAvailabilityDates", [list |-> TRUE, items |-> << >>])
    IN  IF ~dates.list THEN [lines |-> << >>, latest_dt |-> None]
        ELSE LET entries == TopEntries(SortEntries(
                                CollectEntries(dates.items, f, t, now, wd, wa, tw, wo)))
             IN  [lines |-> [i \in 1..Len(entries) |-> entries[i].line],
                  latest_dt |-> IF entries # << >> THEN Some(entries[1].dt) ELSE None]

-----------------------------------------------------------------------------
(* main *)

summary_path == ".availability/summary.txt"

found_path == ".availability/found"

MissingMessage == "Missing BEARER_TOKEN or LOCATION_IDS\n"

Footer == "new york dmv appointment: @https://public.nydmvreservation.com/\n"

\* json.loads on the texts LOCATION_NAME_MAP takes in this model
NameMapText == <<"{", "\"", "1", "\"", ":", "\"", "B", "\"", "}">>

ArrayText == <<"[", "1", "]">>

json_loads(text) ==
    IF text = NameMapText THEN [kind |-> "object", value |-> (<<"1">> :> <<"B">>)]
    ELSE IF text = ArrayText THEN [kind |-> "array", value |-> << >>]
    ELSE [kind |-> "error", value |-> << >>]

\* parse_json_map(raw: Optional[str]) -> Dict[str, str]
parse_json_map(raw) ==
    IF raw = None \/ raw[1] = << >> THEN << >>
    ELSE LET value == json_loads(raw[1])
         IN  IF value.kind = "object" THEN value.value ELSE << >>

\* line 264: not token or not location_ids_raw
ConfigMissing(e) == ReadStr(e, "BEARER_TOKEN") = << >> \/ ReadStr(e, "LOCATION_IDS") = << >>

\* line 295: the label, as the pair of the mapped name (if any) and the id
Label(nm, loc) ==
    IF loc \in DOMAIN nm /\ nm[loc] # << >>
    THEN [name |-> Some(nm[loc]), id |-> loc]
    ELSE [name |-> None, id |-> loc]

\* lines 297, 306, 309: the text of one block
Block(prefix, label, ls) == [prefix |-> prefix, label |-> label, lines |-> ls]

\* the sort key without its minus sign: earliest latest date first
BlockKeyAscending(a, b) ==
    IF a.latest_dt = None THEN b.latest_dt = None
    ELSE b.latest_dt = None \/ a.latest_dt[1] <= b.latest_dt[1]

\* line 315: the sort key (x[0] is None, -timestamp)
BlockKeyLE(a, b) ==
    IF a.latest_dt = None THEN b.latest_dt = None
    ELSE b.latest_dt = None \/ (0 - a.latest_dt[1]) <= (0 - b.latest_dt[1])

\* line 315: location_blocks.sort(key=...): stable, ascending by the key
RECURSIVE SortBlocks(_)
SortBlocks(bs) ==
    IF bs = << >> THEN << >>
    ELSE LET init == SortBlocks(SubSeq(bs, 1, Len(bs) - 1))
             x == bs[Len(bs)]
             k == Cardinality({i \in 1..Len(init) : BlockKeyLE(init[i], x)})
         IN  SubSeq(init, 1, k) \o <<x>> \o SubSeq(init, k + 1, Len(init))

\* lines 313-328: the summary text, as its blocks in order and its last
\* line (the footer follows a blank line also when there is no block)
Summary(blocks, no_lines) ==
    LET sorted == SortBlocks(blocks)
        sorted_blocks == [i \in 1..Len(sorted) |-> sorted[i].block]
    IN  [blocks |-> sorted_blocks \o no_lines, tail |-> Footer]

\* the number of requests a run with environment e issues
NumRequests(e) ==
    IF ConfigMissing(e) THEN 0 ELSE Len(parse_location_ids(ReadStr(e, "LOCATION_IDS")))

\* the state before main() runs
InitMain(Envs, Clocks, Outcomes, FoundFiles) ==
    /\ env \in Envs
    /\ clock \in Clocks
    /\ upstream \in [1..NumRequests(env) -> Outcomes]
    /\ found_file \in FoundFiles
    /\ summary_file = None
    /\ pc = "start"
    /\ location_ids = << >>
    /\ name_map = << >>
    /\ tf = None
    /\ tt = None
    /\ window_days = None
    /\ weekdays_allowed = None
    /\ week_offset = None
    /\ target_weekday = None
    /\ now_epoch = 0
    /\ idx = 0
    /\ resp = None
    /\ lines = << >>
    /\ latest_dt = None
    /\ all_lines = << >>
    /\ location_blocks = << >>
    /\ found_any = FALSE
    /\ written = << >>
    /\ fetches = << >>
    /\ posts = << >>
    /\ returned = None
    /\ stdout = None
    /\ mr_slots = << >>
    /\ mr_merged = None

\* lines 264-269
MissingConfig ==
    /\ pc = "start"
    /\ ConfigMissing(env)
    /\ found_file' = Some("false")
    /\ summary_file' = Some([blocks |-> << >>, tail |-> MissingMessage])
    /\ written' = written \o <<found_path, summary_path>>
    /\ returned' = Some(0)
    /\ pc' = "done"
    /\ UNCHANGED <<env, clock, upstream, location_ids, name_map, tf, tt, window_days,
                   weekdays_allowed, week_offset, target_weekday, now_epoch, idx, resp,
                   lines, latest_dt, all_lines, location_blocks, found_any, fetches,
                   posts, mr_slots, mr_merged, stdout>>

\* lines 271-291; NOW_EPOCH is the clock unless overridden, and the override
\* is an integer like the clock, so the run's "now" is the clock of the model
ParseConfig ==
    /\ pc = "start"
    /\ ~ConfigMissing(env)
    /\ location_ids' = parse_location_ids(ReadStr(env, "LOCATION_IDS"))
    /\ name_map' = parse_json_map(read_env(env, "LOCATION_NAME_MAP", None))
    /\ tf' = to_minutes_24h(read_env(env, "TIME_FROM", None))
    /\ tt' = to_minutes_24h(read_env(env, "TIME_TO", None))
    /\ window_days' = ParseWindowDays(env)
    /\ weekdays_allowed' = allowed_weekdays_set(read_env(env, "WEEKDAYS", None))
    /\ week_offset' = ParseWeekOffset(env)
    /\ target_weekday' = ParseTargetWeekday(env)
    /\ now_epoch' = clock
    /\ all_lines' = << >>
    /\ location_blocks' = << >>
    /\ found_any' = FALSE
    /\ idx' = 1
    /\ pc' = "fetch"
    /\ UNCHANGED <<env, clock, upstream, resp, lines, latest_dt, summary_file, found_file,
                   written, fetches, posts, returned, mr_slots, mr_merged, stdout>>

\* line 294: one GET for the next location; fetch_location answers None on
\* any failure and the parsed body otherwise
FetchLocation ==
    /\ pc = "fetch"
    /\ idx <= Len(location_ids)
    /\ resp' = upstream[Len(fetches) + 1]
    /\ fetches' = Append(fetches, location_ids[idx])
    /\ pc' = "check"
    /\ UNCHANGED <<env, clock, upstream, location_ids, name_map, tf, tt, window_days,
                   weekdays_allowed, week_offset, target_weekday, now_epoch, idx,
                   lines, latest_dt, all_lines, location_blocks, found_any,
                   summary_file, found_file, written, posts, returned, mr_slots,
                   mr_merged, stdout>>

\* line 296: not resp (None, or an empty body)
NotResp(r) == IF r = None THEN TRUE ELSE DOMAIN r[1] = {}

\* a failed fetch that ends the run instead of adding a label-only block
NoResponseAborts ==
    /\ pc = "check"
    /\ NotResp(resp)
    /\ returned' = Some(1)
    /\ pc' = "done"
    /\ UNCHANGED <<env, clock, upstream, location_ids, name_map, tf, tt, window_days,
                   weekdays_allowed, week_offset, target_weekday, now_epoch, idx, resp,
                   lines, latest_dt, all_lines, location_blocks, found_any,
                   summary_file, found_file, written, fetches, posts, mr_slots,
                   mr_merged, stdout>>

\* lines 296-298
NoResponse ==
    /\ pc = "check"
    /\ NotResp(resp)
    /\ all_lines' = Append(all_lines,
                           Block("Location ", Label(name_map, location_ids[idx]), << >>))
    /\ idx' = idx + 1
    /\ pc' = "fetch"
    /\ UNCHANGED <<env, clock, upstream, location_ids, name_map, tf, tt, window_days,
                   weekdays_allowed, week_offset, target_weekday, now_epoch, resp,
                   lines, latest_dt, location_blocks, found_any, summary_file,
                   found_file, written, fetches, posts, returned, mr_slots, mr_merged, stdout>>

\* lines 300-302
BuildSummary ==
    /\ pc = "check"
    /\ ~NotResp(resp)
    /\ LET result == build_summary(resp[1], tf, tt, now_epoch, window_days,
                                   weekdays_allowed, target_weekday, week_offset)
       IN  /\ lines' = result.lines
           /\ latest_dt' = result.latest_dt
    /\ pc' = "block"
    /\ UNCHANGED <<env, clock, upstream, location_ids, name_map, tf, tt, window_days,
                   weekdays_allowed, week_offset, target_weekday, now_epoch, idx, resp,
                   all_lines, location_blocks, found_any, summary_file, found_file,
                   written, fetches, posts, returned, mr_slots, mr_merged, stdout>>

\* lines 303-307
Availability ==
    /\ pc = "block"
    /\ lines # << >>
    /\ found_any' = TRUE
    /\ location_blocks' =
           Append(location_blocks,
                  [latest_dt |-> latest_dt,
                   block |-> Block("", Label(name_map, location_ids[idx]), lines)])
    /\ idx' = idx + 1
    /\ pc' = "fetch"
    /\ UNCHANGED <<env, clock, upstream, location_ids, name_map, tf, tt, window_days,
                   weekdays_allowed, week_offset, target_weekday, now_epoch, resp,
                   lines, latest_dt, all_lines, summary_file, found_file, written,
                   fetches, posts, returned, mr_slots, mr_merged, stdout>>

\* lines 308-309
NoAvailability ==
    /\ pc = "block"
    /\ lines = << >>
    /\ all_lines' = Append(all_lines, Block("", Label(name_map, location_ids[idx]), << >>))
    /\ idx' = idx + 1
    /\ pc' = "fetch"
    /\ UNCHANGED <<env, clock, upstream, location_ids, name_map, tf, tt, window_days,
                   weekdays_allowed, week_offset, target_weekday, now_epoch, resp,
                   lines, latest_dt, location_blocks, found_any, summary_file,
                   found_file, written, fetches, posts, returned, mr_slots, mr_merged, stdout>>

\* the flag text with its two branches exchanged
FoundTextNegated(found) == IF found THEN "false" ELSE "true"

\* line 333: "true" if found_any else "false"
FoundText(found) == IF found THEN "true" ELSE "false"

\* lines 311-337: the loop is over; assemble the summary and write both files
WriteSummary ==
    /\ pc = "fetch"
    /\ idx > Len(location_ids)
    /\ summary_file' = Some(Summary(location_blocks, all_lines))
    /\ found_file' = Some(FoundText(found_any))
    /\ written' = written \o <<summary_path, found_path>>
    /\ stdout' = Some(Summary(location_blocks, all_lines))
    /\ pc' = "notify"
    /\ UNCHANGED <<env, clock, upstream, location_ids, name_map, tf, tt, window_days,
                   weekdays_allowed, week_offset, target_weekday, now_epoch, idx, resp,
                   lines, latest_dt, all_lines, location_blocks, found_any, fetches,
                   posts, returned, mr_slots, mr_merged>>

\* the webhook guard without its test of found_any
ShouldPostAlways(found, e) == ReadStr(e, "WEBHOOK_URL") # << >>

\* lines 340-342: whether post_webhook is called
ShouldPost(found, e) == found /\ ReadStr(e, "WEBHOOK_URL") # << >>

\* post_webhook's result code: a 2xx status, an HTTPError code, 0 for any
\* other exception
WebhookStatuses == {200, 500, 0}

\* lines 340-347, post_webhook called: every outcome is returned, not raised
PostWebhook ==
    /\ pc = "notify"
    /\ ShouldPost(found_any, env)
    /\ \E status \in WebhookStatuses :
           posts' = Append(posts, [url |-> ReadStr(env, "WEBHOOK_URL"),
                                   body |-> summary_file[1], status |-> status])
    /\ returned' = Some(0)
    /\ pc' = "done"
    /\ UNCHANGED <<env, clock, upstream, location_ids, name_map, tf, tt, window_days,
                   weekdays_allowed, week_offset, target_weekday, now_epoch, idx, resp,
                   lines, latest_dt, all_lines, location_blocks, found_any,
                   summary_file, found_file, written, fetches, mr_slots, mr_merged, stdout>>

\* lines 340-347, post_webhook not called
NoWebhook ==
    /\ pc = "notify"
    /\ ~ShouldPost(found_any, env)
    /\ returned' = Some(0)
    /\ pc' = "done"
    /\ UNCHANGED <<env, clock, upstream, location_ids, name_map, tf, tt, window_days,
                   weekdays_allowed, week_offset, target_weekday, now_epoch, idx, resp,
                   lines, latest_dt, all_lines, location_blocks, found_any,
                   summary_file, found_file, written, fetches, posts, mr_slots,
                   mr_merged, stdout>>

Next ==
    \/ MissingConfig
    \/ ParseConfig
    \/ FetchLocation
    \/ NoResponse
    \/ BuildSummary
    \/ Availability
    \/ NoAvailability
    \/ WriteSummary
    \/ PostWebhook
    \/ NoWebhook

-----------------------------------------------------------------------------
(* Inputs *)

\* the sequences over S of length at most n
SeqsUpTo(S, n) == UNION {[1..k -> S] : k \in 0..n}

RECURSIVE Join(_, _)
Join(pieces, sep) ==
    IF pieces = << >> THEN << >>
    ELSE IF Len(pieces) = 1 THEN pieces[1]
    ELSE pieces[1] \o sep \o Join(Tail(pieces), sep)

\* an environment; None is an unset variable
MkEnv(token, ids, names, webhook, window, weekdays, target, offset, from, to) ==
    [BEARER_TOKEN |-> token, LOCATION_IDS |-> ids, LOCATION_NAME_MAP |-> names,
     WEBHOOK_URL |-> webhook, DATE_WINDOW_DAYS |-> window, WEEKDAYS |-> weekdays,
     TARGET_WEEKDAY |-> target, WEEK_OFFSET |-> offset, TIME_FROM |-> from,
     TIME_TO |-> to]

\* a slot of the API: the day number, the minute of the day, the duration
Slot(d, minute, dur) ==
    [StartDateTime |-> Some(d * SecondsPerDay + minute * 60), Duration |-> [num |-> dur]]

\* a day of the API: the day number, the second of the day of its date field
Day(d, sec, dow, ss) ==
    [AvailabilityDate |-> Some(d * SecondsPerDay + sec), DayOfWeek |-> dow,
     AvailableTimeSlots |-> ss]

\* the DayOfWeek text the API sends for a date
DowText(d) ==
    LET n == WeekdayNames[IsoWeekday(d * SecondsPerDay)]
    IN  [i \in 1..Len(n) |-> IF i = 1 THEN UpperAlpha[CHOOSE k \in 1..26 : LowerAlpha[k] = n[1]]
                             ELSE n[i]]

\* a day with one half-hour slot at 09:00
PlainDay(d) == Day(d, 0, DowText(d), <<Slot(d, 540, 30)>>)

Response(days) == [LocationAvailabilityDates |-> [list |-> TRUE, items |-> days]]

EmptyDict == << >>

Blank == <<" ">>

MaxLocs == 3

LocationChars == <<"1", "2", "3", "4", "5", "6", "7", "8", "9">>

\* "1", "1,2", "1,2,3", ...
IdList(n) == Join([i \in 1..n |-> <<LocationChars[i]>>], <<",">>)

\* LOCATION_IDS values: unset, blank, lists of ids, and lists with quotes,
\* spaces, repeated ids and pieces without a digit
LocationInputs ==
    {None, Some(Blank)}
    \cup {Some(IdList(n)) : n \in 1..MaxLocs}
    \cup {Some(<<"x">>), Some(<<",">>), Some(<<"x", ",", "1">>),
          Some(<<"'", "2", "'", " ", "2", "a", ",", " ", "y">>)}

MainEnvs ==
    {MkEnv(token, ids, names, webhook, None, None, None, None, None, None) :
        token \in {None, Some(Blank), Some(<<"t">>)},
        ids \in LocationInputs,
        names \in {None, Some(NameMapText)},
        webhook \in {None, Some(Blank), Some(<<"u">>)}}

\* Monday 1970-01-05 01:00:00
MainClock == 4 * SecondsPerDay + 3600

MainOutcomes ==
    {None, Some(EmptyDict), Some(Response(<< >>)),
     Some(Response(<<PlainDay(10)>>)),
     Some(Response(<<PlainDay(12)>>)),
     Some(Response(<<PlainDay(10), PlainDay(11)>>))}

Init == InitMain(MainEnvs, {MainClock}, MainOutcomes, {None, Some("true")})

Spec == Init /\ [][Next]_vars

-----------------------------------------------------------------------------
(* Properties of a whole run *)

\* the run passed the configuration check and has written its files
Assembled == pc \in {"notify", "done"} /\ ~ConfigMissing(env)

\* the ids parsed from the LOCATION_IDS of the environment
ParsedIds == parse_location_ids(ReadStr(env, "LOCATION_IDS"))

\* the day lines the i-th location's response yields under the run's filters
LinesOf(i) ==
    IF NotResp(upstream[i]) THEN << >>
    ELSE build_summary(upstream[i][1], tf, tt, now_epoch, window_days, weekdays_allowed,
                       target_weekday, week_offset).lines

SetMax(S) == CHOOSE m \in S : \A x \in S : x <= m

\* the latest date listed in a block
LatestDate(b) == SetMax({b.lines[i].date_str : i \in 1..Len(b.lines)})

\* the blocks of the written summary
SummaryBlocks == summary_file[1].blocks

\* the ids of the locations without a day line, in input order
IdsWithoutLines ==
    LET positions == SelectSeq([i \in 1..Len(location_ids) |-> i],
                               LAMBDA i : LinesOf(i) = << >>)
    IN  [k \in 1..Len(positions) |-> location_ids[positions[k]]]

\* C1: when BEARER_TOKEN is absent or blank, or LOCATION_IDS yields no parsed
\* id, the finished run made no fetch and no POST, wrote "false" to the found
\* file and the fixed message to summary.txt, and returned 0.
C1_ShortCircuit ==
    (pc = "done" /\ (ReadStr(env, "BEARER_TOKEN") = << >> \/ ParsedIds = << >>))
    => /\ fetches = << >>
       /\ posts = << >>
       /\ found_file = Some("false")
       /\ summary_file = Some([blocks |-> << >>, tail |-> MissingMessage])
       /\ returned = Some(0)

C3_FoundFlag ==
    (pc = "done" /\ ~ConfigMissing(env)) =>
        LET some == \E i \in 1..Len(location_ids) :
                        upstream[i] # None /\ LinesOf(i) # << >>
        IN  found_file = Some(IF some THEN "true" ELSE "false")

\* C3 witness: the first fetch failed, the second location has a day line,
\* and the finished run wrote "true".
C3_Witness ==
    /\ pc = "done"
    /\ ~ConfigMissing(env)
    /\ Len(location_ids) >= 2
    /\ upstream[1] = None
    /\ LinesOf(2) # << >>
    /\ written = <<summary_path, found_path>>
    /\ found_file = Some("true")

\* C8: at most one POST is attempted, only when found is true and WEBHOOK_URL
\* is not blank; the step that makes the POST, whatever its status, leaves the
\* two files as written and makes main return 0.
C8_Webhook ==
    /\ [](/\ Len(posts) <= 1
          /\ posts # << >> => /\ found_file = Some("true")
                              /\ env.WEBHOOK_URL # None
                              /\ Strip(env.WEBHOOK_URL[1]) # << >>
                              /\ posts[1].body = summary_file[1]
                              /\ returned = Some(0))
    /\ [][posts' # posts => /\ summary_file' = summary_file
                            /\ found_file' = found_file
                            /\ written' = written
                            /\ returned' = Some(0)]_vars

\* C8 witness: the POST failed with a network error and the run ended.
C8_Witness ==
    /\ pc = "done"
    /\ Len(posts) = 1
    /\ posts[1].status = 0
    /\ written = <<summary_path, found_path>>

-----------------------------------------------------------------------------
(* merge_ranges on its own *)

\* main() is not running
MainIdle ==
    /\ env = << >>
    /\ clock = 0
    /\ upstream = << >>
    /\ found_file = None
    /\ summary_file = None
    /\ pc = "idle"
    /\ location_ids = << >>
    /\ name_map = << >>
    /\ tf = None
    /\ tt = None
    /\ window_days = None
    /\ weekdays_allowed = None
    /\ week_offset = None
    /\ target_weekday = None
    /\ now_epoch = 0
    /\ idx = 0
    /\ resp = None
    /\ lines = << >>
    /\ latest_dt = None
    /\ all_lines = << >>
    /\ location_blocks = << >>
    /\ found_any = FALSE
    /\ written = << >>
    /\ fetches = << >>
    /\ posts = << >>
    /\ returned = None
    /\ stdout = None

MaxSlots == 3

\* the (start_min, end_min) pairs of slots that start on a quarter of an hour
\* and last 15 or 30 minutes
SlotRanges == {<<start, start + dur>> : start \in {0, 15, 30}, dur \in {15, 30}}

InitMerge ==
    /\ MainIdle
    /\ mr_slots \in SeqsUpTo(SlotRanges, MaxSlots)
    /\ mr_merged = None

\* one call of merge_ranges
MergeRanges ==
    /\ mr_merged = None
    /\ mr_merged' = Some(merge_ranges(mr_slots))
    /\ UNCHANGED <<mainVars, mr_slots>>

SpecMerge == InitMerge /\ [][MergeRanges]_vars

\* C4: the list merge_ranges returns is sorted ascending by start, has no
\* two overlapping ranges and no two ranges where one ends where another
\* starts.
C4_MergedRanges ==
    mr_merged # None =>
        LET m == mr_merged[1]
        IN  /\ \A i \in 1..Len(m) : \A j \in i..Len(m) : m[i][1] <= m[j][1]
            /\ \A i \in 1..Len(m) : \A j \in 1..Len(m) :
                   i # j => /\ ~(m[i][1] < m[j][2] /\ m[j][1] < m[i][2])
                            /\ m[i][2] # m[j][1]

-----------------------------------------------------------------------------
(* The filters of build_summary: one location, every filter configuration *)

Str_friday_6 == <<"F", "r", "i", "d", "a", "y", ",", " ", "6">>

Str_x_8 == <<"x", ",", "8">>

Str_0900 == <<"0", "9", ":", "0", "0">>

Str_1000 == <<"1", "0", ":", "0", "0">>

\* (TARGET_WEEKDAY, WEEK_OFFSET) values: unset, one of the two alone, both
\* (offsets 0, 1 and -1), an invalid weekday, an invalid offset
TargetInputs ==
    {<<None, None>>,
     <<Some(WeekdayNames[5]), None>>,
     <<Some(WeekdayNames[5]), Some(<<"0">>)>>,
     <<Some(<<"5">>), Some(<<"1">>)>>,
     <<Some(<<"1">>), Some(<<"-", "1">>)>>,
     <<Some(<<"9">>), Some(<<"1">>)>>,
     <<Some(WeekdayNames[5]), Some(<<"z">>)>>}

FilterEnvs ==
    {MkEnv(Some(<<"t">>), Some(<<"1">>), None, None, window, weekdays, target[1],
           target[2], time[1], time[2]) :
        window \in {None, Some(<<"0">>), Some(<<"2">>)},
        weekdays \in {None, Some(Str_friday_6), Some(Str_x_8)},
        target \in TargetInputs,
        time \in {<<None, None>>, <<Some(Str_0900), Some(Str_1000)>>}}

\* an environment without a token and one with a webhook
OtherEnvs ==
    {MkEnv(None, Some(<<"1">>), None, None, None, None, None, None, None, None),
     MkEnv(Some(<<"t">>), Some(<<"1">>), None, Some(<<"u">>), None, None, None, None,
           None, None)}

\* Monday 1970-01-05 01:00:00 and Friday 1970-01-09 23:00:00
FilterClocks == {4 * SecondsPerDay + 3600, 8 * SecondsPerDay + 82800}

\* d with the key k removed
Without(d, k) == [x \in DOMAIN d \ {k} |-> d[x]]

\* the days a response is made of: plain days from Sunday 1970-01-04 to
\* Friday 1970-01-16, and days with a missing, abbreviated or wrong DayOfWeek,
\* no slot, an unreadable date, a slot at 08:00, and adjacent, unreadable and
\* text-valued slots
FilterDays ==
    {PlainDay(d) : d \in {3, 4, 5, 6, 7, 8, 15}}
    \cup {Without(PlainDay(5), "DayOfWeek"),
          Day(9, 0, <<"S", "a", "t">>, <<Slot(9, 540, 30)>>),
          Day(11, 0, WeekdayNames[5], <<Slot(11, 540, 30)>>),
          Day(8, 0, DowText(8), << >>),
          [PlainDay(8) EXCEPT !.AvailabilityDate = None],
          Day(8, 3600, DowText(8), <<Slot(8, 480, 30)>>),
          Day(6, 0, DowText(6),
              <<Slot(6, 570, 0), Slot(6, 540, 30),
                [StartDateTime |-> None, Duration |-> [num |-> 30]],
                [StartDateTime |-> Some(6 * SecondsPerDay + 600 * 60),
                 Duration |-> [str |-> <<"a">>]],
                Without(Slot(6, 585, 15), "Duration")>>)}

MaxFilterDays == 1

FilterOutcomes ==
    {None, Some([LocationAvailabilityDates |-> [list |-> FALSE, items |-> << >>]])}
    \cup {Some(Response(days)) : days \in SeqsUpTo(FilterDays, MaxFilterDays)}

InitFilter == InitMain(FilterEnvs \cup OtherEnvs, FilterClocks, FilterOutcomes, {None})

SpecFilter == InitFilter /\ [][Next]_vars

\* the days of the response in hand
RespDays == Get(resp[1], "LocationAvailabilityDates", [list |-> TRUE, items |-> << >>]).items

\* build_summary has returned for the response in hand
Built == pc = "block"

\* the calendar day of "now"
Today == clock \div SecondsPerDay

\* the text of an environment variable is an integer
IsIntText(v) == v # None /\ ParseInt(v[1]) # None

\* C5: with DATE_WINDOW_DAYS a non-negative integer N, 0 included, every
\* listed day lies 0..N days after today.
C5_DateWindow ==
    (Built /\ IsIntText(env.DATE_WINDOW_DAYS) /\ ParseInt(env.DATE_WINDOW_DAYS[1])[1] >= 0)
    => \A i \in 1..Len(lines) :
           LET d == lines[i].date_str - Today
           IN  0 <= d /\ d <= ParseInt(env.DATE_WINDOW_DAYS[1])[1]

\* the weekday set WEEKDAYS configures, None when it names no weekday
ConfiguredWeekdays == allowed_weekdays_set(env.WEEKDAYS)

\* C6 as stated: with a non-empty weekday set configured, every listed day
\* falls on a weekday of the set.
C6_WeekdayMember ==
    (Built /\ ConfiguredWeekdays # None)
    => \A i \in 1..Len(lines) :
           IsoWeekday(lines[i].date_str * SecondsPerDay) \in ConfiguredWeekdays[1]

\* C6 amended: with a non-empty weekday set configured, every listed day
\* comes from a day of the response whose DayOfWeek names a weekday of the
\* set, or whose DayOfWeek is missing or names no weekday.
C6_WeekdayRecognized ==
    (Built /\ ConfiguredWeekdays # None)
    => \A i \in 1..Len(lines) :
           \E k \in 1..Len(RespDays) :
               LET day == RespDays[k]
                   name == Lower(Strip(Get(day, "DayOfWeek", << >>)))
               IN  /\ day.AvailabilityDate # None
                   /\ DateStr(day.AvailabilityDate[1]) = lines[i].date_str
                   /\ (\A n \in 1..7 : WeekdayNames[n] = name => n \in ConfiguredWeekdays[1])

\* C6 witness: Friday and Saturday are configured and the response's day,
\* whose DayOfWeek reads Friday, is listed.
C6_Witness ==
    /\ Built
    /\ ConfiguredWeekdays = Some({5, 6})
    /\ Len(RespDays) = 1
    /\ DowNum(RespDays[1]) = Some(5)
    /\ Len(lines) = 1
    /\ lines[1].date_str = 8

\* the first day on or after day d that falls on weekday w
NextOccurrence(d, w) == CHOOSE x \in d..(d + 6) : IsoWeekday(x * SecondsPerDay) = w

\* C10: with a valid TARGET_WEEKDAY and an integer WEEK_OFFSET w, every
\* listed day is the next occurrence of the target weekday counted from
\* today (today included), w weeks later, and still passes the configured
\* date-window and weekday filters.
C10_TargetDate ==
    (Built /\ env.TARGET_WEEKDAY # None /\ weekday_to_num(env.TARGET_WEEKDAY[1]) # None
           /\ IsIntText(env.WEEK_OFFSET))
    => \A i \in 1..Len(lines) :
           /\ lines[i].date_str =
                  NextOccurrence(Today, weekday_to_num(env.TARGET_WEEKDAY[1])[1])
                  + 7 * ParseInt(env.WEEK_OFFSET[1])[1]
           /\ IsIntText(env.DATE_WINDOW_DAYS) /\ ParseInt(env.DATE_WINDOW_DAYS[1])[1] > 0
                  => lines[i].date_str - Today \in 0..ParseInt(env.DATE_WINDOW_DAYS[1])[1]
           /\ ConfiguredWeekdays # None
                  => \E k \in 1..Len(RespDays) :
                         /\ RespDays[k].AvailabilityDate # None
                         /\ DateStr(RespDays[k].AvailabilityDate[1]) = lines[i].date_str
                         /\ DowNum(RespDays[k]) # None
                                => DowNum(RespDays[k])[1] \in ConfiguredWeekdays[1]

\* C10 witness: today is a Monday, the target is Friday one week later, and
\* that Friday is listed.
C10_Witness ==
    /\ Built
    /\ IsoWeekday(clock) = 1
    /\ env.TARGET_WEEKDAY = Some(<<"5">>)
    /\ env.WEEK_OFFSET = Some(<<"1">>)
    /\ Len(lines) = 1
    /\ lines[1].date_str = Today + 11

-----------------------------------------------------------------------------
(* The cap of build_summary: one location, no filter, many days *)

MaxCapDays == 6

\* three days with a slot, a later day without one
CapDays == {PlainDay(10), PlainDay(11), PlainDay(12), Day(13, 0, DowText(13), << >>)}

CapEnvs ==
    {MkEnv(Some(<<"t">>), Some(<<"1">>), None, None, None, None, None, None, None, None)}
    \cup OtherEnvs

CapOutcomes == {None} \cup {Some(Response(days)) : days \in SeqsUpTo(CapDays, MaxCapDays)}

InitCap == InitMain(CapEnvs, {MainClock}, CapOutcomes, {None})

SpecCap == InitCap /\ [][Next]_vars

\* the days of the response in hand that qualify under the run's filters
Qualifying ==
    {k \in 1..Len(RespDays) :
        DayEntry(RespDays[k], tf, tt, now_epoch, window_days, weekdays_allowed,
                 target_weekday, week_offset) # None}

QualifyingOn(d) == {k \in Qualifying : DateStr(RespDays[k].AvailabilityDate[1]) = d}

LinesOn(d) == {i \in 1..Len(lines) : lines[i].date_str = d}

QualifyingDates == {DateStr(RespDays[k].AvailabilityDate[1]) : k \in Qualifying}

\* C7: build_summary returns at most 5 day lines: those of the 5 most recent
\* qualifying days (all of them when fewer than 6 qualify), newest first; the
\* latest date it returns is the date of the first line, the maximum
\* qualifying date, and None when no day qualifies.
C7_TopFive ==
    Built =>
        /\ Len(lines) = (IF Cardinality(Qualifying) < 5 THEN Cardinality(Qualifying) ELSE 5)
        /\ \A i \in 1..Len(lines) : \A j \in i..Len(lines) :
               lines[i].date_str >= lines[j].date_str
        /\ \A d \in QualifyingDates \cup {lines[i].date_str : i \in 1..Len(lines)} :
               /\ Cardinality(LinesOn(d)) <= Cardinality(QualifyingOn(d))
               /\ (lines # << >> /\ d > lines[Len(lines)].date_str)
                      => Cardinality(LinesOn(d)) = Cardinality(QualifyingOn(d))
        /\ (latest_dt = None) <=> (Qualifying = {})
        /\ latest_dt # None => /\ DateStr(latest_dt[1]) = lines[1].date_str
                               /\ DateStr(latest_dt[1]) = SetMax(QualifyingDates)

\* C7 witness: six days qualify, the oldest of them once, and the five lines
\* returned leave the oldest out.
C7_Witness ==
    /\ Built
    /\ Cardinality(Qualifying) = 6
    /\ Cardinality(QualifyingOn(10)) = 1
    /\ RespDays[6] = PlainDay(12)
    /\ Len(lines) = 5
    /\ LinesOn(10) = {}
    /\ latest_dt = Some(12 * SecondsPerDay)

=============================================================================
